---- MODULE Spec2Model ----
(***************************************************************************)
(* A model of wordle.py: the colour-feedback rule, the 26 x 7 table of     *)
(* known information, the filter over the dictionary, the entropy ranking  *)
(* and the two game loops (play_wordle, computer_play_wordle).             *)
(*                                                                         *)
(* A word is a sequence of one-character strings.  Python's 0-based index  *)
(* j is the 1-based index j+1 here; column -2 of a table row is column 6   *)
(* and column -1 is column 7.  A position cell holds "0" (the fresh        *)
(* table's integer 0, which equals no colour character) or the character   *)
(* generate_array stored there.                                            *)
(***************************************************************************)
EXTENDS Integers, Sequences, FiniteSets, TLC

VARIABLES pc, lines, answer, guess, check, guess_array, possible_guesses,
          entropy_list, guess_suggestion, loop_count, result, guesses

vars == <<pc, lines, answer, guess, check, guess_array, possible_guesses,
          entropy_list, guess_suggestion, loop_count, result, guesses>>

(* ------------------------------ bounds -------------------------------- *)

\* Inputs of compute_wordle_information: every word of length 1..MaxLen over
\* the first NumLetters letters of the alphabet.
NumLetters == 3
MaxLen == 3
\* Inputs of the filter: every word of length 1..FilterLen over the first
\* FilterLetters letters, and MaxGuesses (guess, feedback) pairs per table.
FilterLetters == 2
FilterLen == 2
MaxGuesses == 2

(* ------------------------- program constants -------------------------- *)

\* Rows of the table: one per letter.
NumRows == 26
\* Columns of the table: 5 positions, the minimum count, the exact flag.
NumCols == 7
\* The turn budget of both game loops.
MaxTurns == 6

Alphabet ==
    << "a", "b", "c", "d", "e", "f", "g", "h", "i", "j", "k", "l", "m",
       "n", "o", "p", "q", "r", "s", "t", "u", "v", "w", "x", "y", "z" >>

\* The winning sequence both loops compare the feedback with.
AllGreen == << "g", "g", "g", "g", "g" >>

\* The first suggestion, computed offline.
FirstGuess == << "t", "a", "r", "e", "s" >>

(* ------------------------------ helpers ------------------------------- *)

\* ord(letter) - ord('a')
LetterIndex ==
    [ l \in { Alphabet[i] : i \in 1..NumRows } |->
        (CHOOSE i \in 1..NumRows : Alphabet[i] = l) - 1 ]

index_of_letter(letter) == LetterIndex[letter]

\* str.count for a one-character argument
count(word, letter) ==
    Cardinality({ j \in 1..Len(word) : word[j] = letter })

\* guess[:j+1] of Python, for the 1-based position j
Prefix(word, j) == SubSeq(word, 1, j)

(* --------------------- compute_wordle_information --------------------- *)

\* frequency_array after the first loop: occurrences of each letter in answer
frequency_array(answer_) ==
    [ i \in 0..(NumRows - 1) |->
        Cardinality({ j \in 1..Len(answer_) : index_of_letter(answer_[j]) = i }) ]

\* green_frequency_array after the first loop: per letter, the positions of
\* answer where guess carries the same letter
green_frequency_array(guess_, answer_) ==
    [ i \in 0..(NumRows - 1) |->
        Cardinality({ j \in 1..Len(answer_) :
                        /\ index_of_letter(answer_[j]) = i
                        /\ guess_[j] = answer_[j] }) ]

\* YellowCondition without the test against the remaining green budget.
YellowCondition_NoGreenBudget(guess_, answer_, j, green) ==
    LET i == index_of_letter(guess_[j])
        cnt == count(Prefix(guess_, j), guess_[j])
        freq == frequency_array(answer_)
    IN  /\ \E k \in 1..Len(answer_) : answer_[k] = guess_[j]
        /\ cnt <= freq[i]

\* YellowCondition with < in place of <= on the running count.
YellowCondition_StrictCount(guess_, answer_, j, green) ==
    LET i == index_of_letter(guess_[j])
        cnt == count(Prefix(guess_, j), guess_[j])
        freq == frequency_array(answer_)
    IN  /\ \E k \in 1..Len(answer_) : answer_[k] = guess_[j]
        /\ cnt < freq[i]
        /\ freq[i] - cnt >= green[i]

\* The condition of the elif branch at position j: the letter is marked yellow.
YellowCondition(guess_, answer_, j, green) ==
    LET i == index_of_letter(guess_[j])
        cnt == count(Prefix(guess_, j), guess_[j])
        freq == frequency_array(answer_)
    IN  /\ \E k \in 1..Len(answer_) : answer_[k] = guess_[j]
        /\ cnt <= freq[i]
        /\ freq[i] - cnt >= green[i]

\* The second loop, from position j on, with the running green budget.
RECURSIVE ColorScan(_, _, _, _, _)
ColorScan(guess_, answer_, j, green, sequence) ==
    IF j > Len(guess_) THEN sequence
    ELSE LET i == index_of_letter(guess_[j])
         IN  IF guess_[j] = answer_[j]
             THEN ColorScan(guess_, answer_, j + 1,
                            [green EXCEPT ![i] = @ - 1],
                            Append(sequence, "g"))
             ELSE IF YellowCondition(guess_, answer_, j, green)
             THEN ColorScan(guess_, answer_, j + 1, green, Append(sequence, "y"))
             ELSE ColorScan(guess_, answer_, j + 1, green, Append(sequence, "b"))

compute_wordle_information(guess_, answer_) ==
    ColorScan(guess_, answer_, 1, green_frequency_array(guess_, answer_), << >>)

(* ----------------------------- the table ------------------------------ *)

\* [[0 for x in range(7)] for y in range(26)]
FreshRow == << "0", "0", "0", "0", "0", 0, FALSE >>

FreshArray == [ i \in 0..(NumRows - 1) |-> FreshRow ]

\* Column -2 and column -1 of a row.
MinCol == NumCols - 1
ExactCol == NumCols

\* compute_letter_freq counting every tile of the letter, whatever its colour.
compute_letter_freq_CountsAll(letter, guess_, check_) ==
    << Cardinality({ i \in 1..Len(guess_) : guess_[i] = letter }),
       \E i \in 1..Len(guess_) : check_[i] = "b" /\ guess_[i] = letter >>

\* compute_letter_freq: <<count, is_exact>> for one letter of the guess
compute_letter_freq(letter, guess_, check_) ==
    << Cardinality({ i \in 1..Len(guess_) :
                       /\ check_[i] \in {"g", "y"}
                       /\ guess_[i] = letter }),
       \E i \in 1..Len(guess_) : check_[i] = "b" /\ guess_[i] = letter >>

\* One iteration of generate_array's loop: the three assignments for position j.
WriteCell(guess_, check_, array, j) ==
    LET i == index_of_letter(guess_[j])
        letter_count == compute_letter_freq(guess_[j], guess_, check_)
    IN  [array EXCEPT ![i] = [@ EXCEPT ![j] = check_[j],
                                       ![MinCol] = letter_count[1],
                                       ![ExactCol] = letter_count[2]]]

RECURSIVE GenerateFrom(_, _, _, _)
GenerateFrom(guess_, check_, array, j) ==
    IF j > Len(guess_) THEN array
    ELSE GenerateFrom(guess_, check_, WriteCell(guess_, check_, array, j), j + 1)

generate_array(guess_, check_, array) == GenerateFrom(guess_, check_, array, 1)

(* ----------------------------- valid_guess ---------------------------- *)

\* is_incorrect_position that looks for black tiles only.
is_incorrect_position_BlackOnly(word, array) ==
    \A j \in 1..Len(word) :
        LET i == index_of_letter(word[j])
        IN  ~(array[i][j] = "b")

is_incorrect_position(word, array) ==
    \A j \in 1..Len(word) :
        LET i == index_of_letter(word[j])
        IN  ~(array[i][j] = "b" \/ array[i][j] = "y")

is_correct_position(word, array) ==
    \A j \in 1..Len(word) :
        LET i == index_of_letter(word[j])
        IN  \A k \in 0..(NumRows - 1) : ~(array[k][j] = "g" /\ i # k)

is_correct_letter_frequencies(word, array) ==
    /\ \A j \in 1..Len(word) :
          LET cnt == count(word, word[j])
              i == index_of_letter(word[j])
              letter_frequency == array[i][MinCol]
              is_exactly_count == array[i][ExactCol]
          IN  IF is_exactly_count
              THEN letter_frequency = cnt
              ELSE ~(letter_frequency > cnt)
    /\ \A j \in 0..(NumRows - 1) :
          array[j][MinCol] >= 1 =>
              \E k \in 1..Len(word) : word[k] = Alphabet[j + 1]

valid_guess(word, array) ==
    /\ is_incorrect_position(word, array)
    /\ is_correct_position(word, array)
    /\ is_correct_letter_frequencies(word, array)

(* --------------------------- bounded inputs --------------------------- *)

\* Every word of length n over the first k letters of the alphabet.
InputWords(k, n) == [ 1..n -> { Alphabet[i] : i \in 1..k } ]

AllInputWords == UNION { InputWords(NumLetters, n) : n \in 1..MaxLen }

\* Five-letter words: those the documentation discusses and those of the
\* dictionaries below.
Speed == << "s", "p", "e", "e", "d" >>
Erase == << "e", "r", "a", "s", "e" >>
Abbey == << "a", "b", "b", "e", "y" >>
Allay == << "a", "l", "l", "a", "y" >>
Slate == << "s", "l", "a", "t", "e" >>
Arose == << "a", "r", "o", "s", "e" >>
Tares == FirstGuess
Bares == << "b", "a", "r", "e", "s" >>
Cares == << "c", "a", "r", "e", "s" >>
Dares == << "d", "a", "r", "e", "s" >>
Fares == << "f", "a", "r", "e", "s" >>
Hares == << "h", "a", "r", "e", "s" >>
Mares == << "m", "a", "r", "e", "s" >>
River == << "r", "i", "v", "e", "r" >>
Rimer == << "r", "i", "m", "e", "r" >>
Ricer == << "r", "i", "c", "e", "r" >>
Mercy == << "m", "e", "r", "c", "y" >>

WordList ==
    << Tares, Bares, Cares, River, Rimer, Ricer, Mercy, Speed, Erase, Abbey,
       Allay, Slate, Arose >>

Elements(seq) == { seq[k] : k \in 1..Len(seq) }

\* <<guess, answer>> pairs of five-letter words.
Fixtures == Elements(WordList) \X Elements(WordList)

(* ------------- specification of compute_wordle_information ------------ *)

\* Values of the variables a specification does not use.
Idle ==
    /\ lines = << >>
    /\ guess_array = FreshArray
    /\ possible_guesses = << >>
    /\ entropy_list = << >>
    /\ guess_suggestion = << >>
    /\ loop_count = 0
    /\ result = 0
    /\ guesses = << >>

InitFeedback ==
    /\ pc = "call"
    /\ \E pair \in { <<g, a>> \in AllInputWords \X AllInputWords : Len(g) = Len(a) }
                   \cup Fixtures :
          /\ guess = pair[1]
          /\ answer = pair[2]
    /\ check = << >>
    /\ Idle

\* One call compute_wordle_information(guess, answer).
ComputeFeedback ==
    /\ pc = "call"
    /\ check' = compute_wordle_information(guess, answer)
    /\ pc' = "returned"
    /\ UNCHANGED <<lines, answer, guess, guess_array, possible_guesses,
                   entropy_list, guess_suggestion, loop_count, result, guesses>>

NextFeedback == ComputeFeedback

SpecFeedback == InitFeedback /\ [][NextFeedback]_vars

Min(a, b) == IF a <= b THEN a ELSE b

\* The official colouring of guess against answer, as a relation.
OfficialColoring(guess_, answer_, seq) ==
    /\ Len(seq) = Len(guess_)
    /\ \A j \in 1..Len(guess_) :
          /\ seq[j] \in {"g", "y", "b"}
          /\ seq[j] = "g" <=> guess_[j] = answer_[j]
    /\ \A j \in 1..Len(guess_) :
          LET marked == { k \in 1..Len(guess_) :
                            guess_[k] = guess_[j] /\ seq[k] \in {"g", "y"} }
          IN  Cardinality(marked) =
                  Min(count(guess_, guess_[j]), count(answer_, guess_[j]))
    /\ \A j, k \in 1..Len(guess_) :
          ( /\ j < k
            /\ guess_[j] = guess_[k]
            /\ seq[j] # "g"
            /\ seq[k] = "y" ) => seq[j] = "y"

\* C2: the sequence compute_wordle_information returns is the official
\* Wordle colouring: green exactly on the matching positions, per letter as
\* many green or yellow marks as min(copies in guess, copies in answer), the
\* yellow marks on the leftmost non-green copies and the excess black.
C2_OfficialColoring ==
    pc = "returned" => OfficialColoring(guess, answer, check)

\* A returned sequence where a letter has an excess black copy to the left
\* of a green copy of the same letter, and a yellow copy elsewhere.
C2_Witness ==
    /\ pc = "returned"
    /\ \E j, k \in 1..Len(guess) :
          j < k /\ guess[j] = guess[k] /\ check[j] = "b" /\ check[k] = "g"
    /\ \E j \in 1..Len(guess) : check[j] = "y"

\* C5 (as stated): speed against erase is coloured black, black, yellow,
\* black, black.
C5_SpeedErase_AsStated ==
    (pc = "returned" /\ guess = Speed /\ answer = Erase)
        => check = << "b", "b", "y", "b", "b" >>

\* C5 (amended): speed against erase is coloured yellow, black, yellow,
\* yellow, black: erase holds one s and two e, none of them in place.
C5_SpeedErase ==
    (pc = "returned" /\ guess = Speed /\ answer = Erase)
        => check = << "y", "b", "y", "y", "b" >>

C5_Witness ==
    pc = "returned" /\ guess = Speed /\ answer = Erase

(* ------------------- specification of the filter ---------------------- *)

\* The words of a set as a list, in some fixed order.
RECURSIVE SetToSeq(_)
SetToSeq(S) ==
    IF S = {} THEN << >>
    ELSE LET w == CHOOSE x \in S : TRUE
         IN  << w >> \o SetToSeq(S \ {w})

\* The inner loop over lines: the words that pass valid_guess, in order.
filter_candidates(lines_, array) ==
    SelectSeq(lines_, LAMBDA w : valid_guess(w, array))

FilterInputWords == UNION { InputWords(FilterLetters, n) : n \in 1..FilterLen }

\* A fresh table, a hidden answer and a dictionary: a bounded word with every
\* word of its length, or a five-letter word with WordList.
InitFilter ==
    /\ pc = "filter"
    /\ answer \in FilterInputWords \cup Elements(WordList)
    /\ lines = IF answer \in FilterInputWords
               THEN SetToSeq(InputWords(FilterLetters, Len(answer)))
               ELSE WordList
    /\ guess = << >>
    /\ check = << >>
    /\ guess_array = FreshArray
    /\ possible_guesses = filter_candidates(lines, FreshArray)
    /\ entropy_list = << >>
    /\ guess_suggestion = << >>
    /\ loop_count = 0
    /\ result = 0
    /\ guesses = << >>

\* One (guess, feedback) pair: the feedback of any dictionary word against the
\* answer, its incorporation into the table, and the filter over lines.
Incorporate ==
    /\ pc = "filter"
    /\ loop_count < MaxGuesses
    /\ \E g \in Elements(lines) :
          LET c == compute_wordle_information(g, answer)
              a == generate_array(g, c, guess_array)
          IN  /\ guess' = g
              /\ check' = c
              /\ guess_array' = a
              /\ possible_guesses' = filter_candidates(lines, a)
    /\ loop_count' = loop_count + 1
    /\ UNCHANGED <<pc, lines, answer, entropy_list, guess_suggestion, result,
                   guesses>>

NextFilter == Incorporate

SpecFilter == InitFilter /\ [][NextFilter]_vars

InSeq(w, seq) == \E k \in 1..Len(seq) : seq[k] = w

\* C1: with the table built from the feedback of any guesses against one
\* answer, the answer passes valid_guess and is in the filtered candidate
\* list.
C1_AnswerNeverExcluded ==
    (pc = "filter" /\ loop_count >= 1) =>
        /\ valid_guess(answer, guess_array)
        /\ InSeq(answer, possible_guesses)

\* Several pairs incorporated, the answer not yet guessed, and the table
\* holding an exact count of at least one for a letter.
C1_Witness ==
    /\ pc = "filter"
    /\ loop_count >= 2
    /\ guess # answer
    /\ \E i \in 0..(NumRows - 1) :
          guess_array[i][ExactCol] /\ guess_array[i][MinCol] >= 1
    /\ InSeq(answer, possible_guesses)
    /\ Len(possible_guesses) >= 2

\* C3 (as stated): incorporating one more pair never makes the number of
\* dictionary words that pass valid_guess larger.
C3_MonotoneShrinkage ==
    [][Len(possible_guesses') <= Len(possible_guesses)]_vars

\* C4: after the first pair on a fresh table, every dictionary word that
\* passes valid_guess gives the guess the same colour sequence as the answer.
C4_FirstTurnExact ==
    (pc = "filter" /\ loop_count = 1) =>
        \A k \in 1..Len(possible_guesses) :
            compute_wordle_information(guess, possible_guesses[k]) = check

\* A first turn with a black and a yellow tile that leaves several words.
C4_Witness ==
    /\ pc = "filter"
    /\ loop_count = 1
    /\ Len(possible_guesses) >= 2
    /\ \E j \in 1..Len(check) : check[j] = "b"
    /\ \E j \in 1..Len(check) : check[j] = "y"

\* C6 (as stated): a letter's stored minimum count never decreases from one
\* generate_array call to the next, and does not change once its exact flag
\* is set.
C6_MinCountMonotone ==
    [][\A i \in 0..(NumRows - 1) :
          /\ guess_array'[i][MinCol] >= guess_array[i][MinCol]
          /\ guess_array[i][ExactCol] =>
                guess_array'[i][MinCol] = guess_array[i][MinCol]]_vars

(* --------------------------- entropy ranking -------------------------- *)

\* compute_probability_distribution before the division: the colour
\* sequences guess induces over word_list, and how many words give each.
color_sequences(guess_, word_list) ==
    { compute_wordle_information(guess_, word_list[k]) : k \in 1..Len(word_list) }

bucket_count(guess_, word_list, seq) ==
    Cardinality({ k \in 1..Len(word_list) :
                    compute_wordle_information(guess_, word_list[k]) = seq })

RECURSIVE Power(_, _)
Power(b, e) == IF e = 0 THEN 1 ELSE b * Power(b, e - 1)

RECURSIVE Product(_, _, _)
Product(S, guess_, word_list) ==
    IF S = {} THEN 1
    ELSE LET seq == CHOOSE x \in S : TRUE
             c == bucket_count(guess_, word_list, seq)
         IN  Power(c, c) * Product(S \ {seq}, guess_, word_list)

\* compute_entropy.  With n = len(word_list) and bucket sizes c_1..c_m the
\* entropy is H = sum (c_i/n) * log2(n/c_i) = log2(n) - log2(W)/n, where
\* W = c_1^c_1 * ... * c_m^c_m.  All entropies of one ranking share n, so H
\* is represented exactly by W: equal H is equal W and a higher H is a lower
\* W.  Over an empty word_list the sum is empty for every guess (H = 0), and
\* W = 1 for every guess.
compute_entropy(guess_, word_list) ==
    Product(color_sequences(guess_, word_list), guess_, word_list)

\* x[1] > y[1] of the entropies the two weights stand for
HigherEntropy(x, y) == x < y

\* sorted(entropy_list, key=lambda x: x[1], reverse=True): stable, so an
\* entry goes behind every entry whose entropy is not lower than its own.
RECURSIVE InsertSorted(_, _)
InsertSorted(sorted, entry) ==
    IF sorted = << >> THEN << entry >>
    ELSE IF HigherEntropy(entry[2], Head(sorted)[2])
         THEN << entry >> \o sorted
         ELSE << Head(sorted) >> \o InsertSorted(Tail(sorted), entry)

RECURSIVE SortEntries(_, _, _)
SortEntries(entries, k, sorted) ==
    IF k > Len(entries) THEN sorted
    ELSE SortEntries(entries, k + 1, InsertSorted(sorted, entries[k]))

\* generate_entropy_list: <<word, entropy>> for every word, best first
generate_entropy_list(word_list, possible) ==
    SortEntries([ k \in 1..Len(word_list) |->
                    << word_list[k], compute_entropy(word_list[k], possible) >> ],
                1, << >>)

\* The loop over possible_guesses from position k on: a possible answer whose
\* entropy equals the top entropy replaces the suggestion.
RECURSIVE PreferPossible(_, _, _, _)
PreferPossible(ranking, possible, k, suggestion) ==
    IF k > Len(possible) THEN suggestion
    ELSE PreferPossible(ranking, possible, k + 1,
            IF \E i \in 1..Len(ranking) :
                  /\ ranking[i][1] = possible[k]
                  /\ ranking[1][2] = ranking[i][2]
            THEN possible[k]
            ELSE suggestion)

\* choose_suggestion without the loop over possible_guesses.
choose_suggestion_TopOnly(ranking, possible) == ranking[1][1]

\* guess_suggestion after a turn that was not won
choose_suggestion(ranking, possible) ==
    PreferPossible(ranking, possible, 1, ranking[1][1])

(* ------------------------ dictionaries and inputs --------------------- *)

\* Contents of sgb-words.txt: small word lists, one with six words that
\* differ in the first letter only, one where a word that cannot be the
\* answer separates the remaining answers best.
DictTrap6 == << Tares, Bares, Cares, Dares, Fares, Hares >>
DictTrap7 == << Tares, Bares, Cares, Dares, Fares, Hares, Mares >>
DictRiver == << Tares, River, Rimer, Ricer, Mercy >>

Dictionaries == { DictTrap6, DictTrap7, DictRiver }

\* Hidden answers: the dictionary words and words outside every dictionary.
AnswerPool ==
    { Tares, Bares, Cares, Dares, Fares, Hares, Mares, River, Rimer, Ricer,
      Mercy, Slate, Speed, Erase }

(* ----------------------- one turn of either loop ---------------------- *)

\* Lines 214-225 and 251-261: the table, the possible answers, the ranking
\* and the next suggestion after the feedback check_ for guess_.
TurnUpdate(guess_, check_) ==
    /\ guess_array' = generate_array(guess_, check_, guess_array)
    /\ possible_guesses' = filter_candidates(lines, guess_array')
    /\ entropy_list' = generate_entropy_list(lines, possible_guesses')
    /\ guess_suggestion' = choose_suggestion(entropy_list', possible_guesses')

(* ------------------------ computer_play_wordle ------------------------ *)

Init ==
    /\ pc = "loop"
    /\ lines \in Dictionaries
    /\ answer \in AnswerPool
    /\ guess = << >>
    /\ check = << >>
    /\ guess_array = FreshArray
    /\ possible_guesses = << >>
    /\ entropy_list = << >>
    /\ guess_suggestion = FirstGuess
    /\ loop_count = 0
    /\ result = 0
    /\ guesses = << >>

\* An iteration whose feedback is the winning sequence: return loop_count.
ComputerWin ==
    /\ pc = "loop"
    /\ compute_wordle_information(guess_suggestion, answer) = AllGreen
    /\ loop_count' = loop_count + 1
    /\ guess' = guess_suggestion
    /\ check' = compute_wordle_information(guess_suggestion, answer)
    /\ possible_guesses' = << >>
    /\ guesses' = Append(guesses, guess_suggestion)
    /\ result' = loop_count + 1
    /\ pc' = "returned"
    /\ UNCHANGED <<lines, answer, guess_array, entropy_list, guess_suggestion>>

\* An iteration that is not won and leaves turns: back to the loop head.
ComputerTurn ==
    /\ pc = "loop"
    /\ compute_wordle_information(guess_suggestion, answer) # AllGreen
    /\ loop_count + 1 < MaxTurns
    /\ loop_count' = loop_count + 1
    /\ guess' = guess_suggestion
    /\ check' = compute_wordle_information(guess_suggestion, answer)
    /\ guesses' = Append(guesses, guess_suggestion)
    /\ TurnUpdate(guess_suggestion,
                  compute_wordle_information(guess_suggestion, answer))
    /\ UNCHANGED <<pc, lines, answer, result>>

\* ComputerGiveUp returning loop_count itself.
ComputerGiveUp_ReturnsCount ==
    /\ pc = "loop"
    /\ compute_wordle_information(guess_suggestion, answer) # AllGreen
    /\ loop_count + 1 >= MaxTurns
    /\ loop_count' = loop_count + 1
    /\ guess' = guess_suggestion
    /\ check' = compute_wordle_information(guess_suggestion, answer)
    /\ guesses' = Append(guesses, guess_suggestion)
    /\ TurnUpdate(guess_suggestion,
                  compute_wordle_information(guess_suggestion, answer))
    /\ result' = loop_count + 1
    /\ pc' = "returned"
    /\ UNCHANGED <<lines, answer>>

\* An iteration that is not won and was the last: return loop_count + 1.
ComputerGiveUp ==
    /\ pc = "loop"
    /\ compute_wordle_information(guess_suggestion, answer) # AllGreen
    /\ loop_count + 1 >= MaxTurns
    /\ loop_count' = loop_count + 1
    /\ guess' = guess_suggestion
    /\ check' = compute_wordle_information(guess_suggestion, answer)
    /\ guesses' = Append(guesses, guess_suggestion)
    /\ TurnUpdate(guess_suggestion,
                  compute_wordle_information(guess_suggestion, answer))
    /\ result' = loop_count + 2
    /\ pc' = "returned"
    /\ UNCHANGED <<lines, answer>>

Next == ComputerWin \/ ComputerTurn \/ ComputerGiveUp

Spec == Init /\ [][Next]_vars

\* The k-th guess is the first one equal to the answer.
FirstHit(k) ==
    /\ k \in 1..Len(guesses)
    /\ guesses[k] = answer
    /\ \A h \in 1..(k - 1) : guesses[h] # answer

\* What holds of every state of computer_play_wordle: at most 6 guesses, and
\* a returned value in 1..7 that is k <= 6 exactly when the k-th guess is the
\* first guess equal to the answer and 7 exactly when none of the 6 guesses
\* equals the answer.
ReturnValueCorrect ==
    /\ loop_count = Len(guesses)
    /\ loop_count <= MaxTurns
    /\ pc = "loop" => loop_count < MaxTurns
    /\ pc = "returned" =>
          /\ result \in 1..(MaxTurns + 1)
          /\ \A k \in 1..MaxTurns : result = k <=> FirstHit(k)
          /\ result = MaxTurns + 1 <=>
                /\ Len(guesses) = MaxTurns
                /\ \A h \in 1..MaxTurns : guesses[h] # answer

\* C9: computer_play_wordle makes one more guess with every iteration and at
\* most 6 in all, and returns a value in 1..7: k <= 6 exactly when the k-th
\* guess is the first guess equal to the answer, 7 exactly when none of the 6
\* guesses equals the answer (a solve on the sixth guess returns 6).
C9_ReturnValue ==
    /\ []ReturnValueCorrect
    /\ [][pc = "loop" /\ loop_count' = loop_count + 1]_vars

\* The answer found with the sixth guess: 6 is returned.
C9_Witness ==
    /\ pc = "returned"
    /\ Len(guesses) = MaxTurns
    /\ guesses[MaxTurns] = answer
    /\ result = MaxTurns

(* ----------------------------- play_wordle ---------------------------- *)

\* Feedback strings that are no colour sequence of a five-letter guess.
TooShort == << "g", "b", "y" >>
TooLong == << "b", "y", "b", "b", "g", "b" >>
BadSymbol == << "g", "x", "b", "b", "y" >>

MalformedChecks == { TooShort, TooLong, BadSymbol }

WellFormed(check_, guess_) ==
    /\ Len(check_) = Len(guess_)
    /\ \A j \in 1..Len(check_) : check_[j] \in {"g", "y", "b"}

\* What the user types as the guess: the suggestion, or a word of their own
\* (the last word of the dictionary).
GuessInputs == { guess_suggestion, lines[Len(lines)] }

\* What the user types as the colour sequence: the colouring of the guess
\* against the answer of the game the user is playing (answer is the user's
\* game, not a variable of play_wordle), or a malformed string.
CheckInputs(guess_) ==
    { compute_wordle_information(guess_, answer) } \cup MalformedChecks

InitPlay ==
    /\ pc = "loop"
    /\ lines \in Dictionaries
    /\ answer \in AnswerPool
    /\ guess = << >>
    /\ check = << >>
    /\ guess_array = FreshArray
    /\ possible_guesses = << >>
    /\ entropy_list = << >>
    /\ guess_suggestion = FirstGuess
    /\ loop_count = 0
    /\ result = 0
    /\ guesses = << >>

\* The winning sequence is typed: the loop is left.
PlayWin ==
    /\ pc = "loop"
    /\ \E g \in GuessInputs :
          \E c \in CheckInputs(g) :
             /\ c = AllGreen
             /\ guess' = g
             /\ check' = c
    /\ loop_count' = loop_count + 1
    /\ possible_guesses' = << >>
    /\ pc' = "won"
    /\ UNCHANGED <<lines, answer, guess_array, entropy_list, guess_suggestion,
                   result, guesses>>

\* A sequence shorter than the guess: compute_letter_freq reads check[i]
\* past its end during the first iteration of generate_array, before any
\* cell is assigned, and the IndexError ends the program.
PlayIndexError ==
    /\ pc = "loop"
    /\ \E g \in GuessInputs :
          \E c \in CheckInputs(g) :
             /\ c # AllGreen
             /\ Len(c) < Len(g)
             /\ guess' = g
             /\ check' = c
    /\ loop_count' = loop_count + 1
    /\ possible_guesses' = << >>
    /\ pc' = "IndexError"
    /\ UNCHANGED <<lines, answer, guess_array, entropy_list, guess_suggestion,
                   result, guesses>>

\* Any other sequence, with turns left.
PlayTurn ==
    /\ pc = "loop"
    /\ loop_count + 1 < MaxTurns
    /\ \E g \in GuessInputs :
          \E c \in CheckInputs(g) :
             /\ c # AllGreen
             /\ Len(c) >= Len(g)
             /\ guess' = g
             /\ check' = c
             /\ TurnUpdate(g, c)
    /\ loop_count' = loop_count + 1
    /\ UNCHANGED <<pc, lines, answer, result, guesses>>

\* Any other sequence on the last turn: 'You lost wordle'.
PlayLost ==
    /\ pc = "loop"
    /\ loop_count + 1 >= MaxTurns
    /\ \E g \in GuessInputs :
          \E c \in CheckInputs(g) :
             /\ c # AllGreen
             /\ Len(c) >= Len(g)
             /\ guess' = g
             /\ check' = c
             /\ TurnUpdate(g, c)
    /\ loop_count' = loop_count + 1
    /\ pc' = "lost"
    /\ UNCHANGED <<lines, answer, result, guesses>>

NextPlay == PlayWin \/ PlayIndexError \/ PlayTurn \/ PlayLost

SpecPlay == InitPlay /\ [][NextPlay]_vars

\* The last turn ran the filter, the ranking and the choice of a suggestion.
TurnCompleted == loop_count >= 1 /\ pc \in {"loop", "lost"}

\* The word has the maximum entropy among the dictionary words, over the
\* current possible answers.
HasMaxEntropy(word) ==
    \A k \in 1..Len(lines) :
        ~HigherEntropy(compute_entropy(lines[k], possible_guesses),
                       compute_entropy(word, possible_guesses))

\* C7 (as stated): a filter that leaves no possible answer ends the turn in
\* the NoCandidatesRemain outcome.
C7_NoCandidatesRemain ==
    (/\ loop_count >= 1
     /\ check # AllGreen
     /\ Len(check) >= Len(guess)
     /\ possible_guesses = << >>) => pc = "NoCandidatesRemain"

\* C8 (as stated): a feedback string of the wrong length or with a symbol
\* outside g, y, b leaves the table as it was.
C8_MalformedLeavesTable ==
    [][~WellFormed(check', guess') => guess_array' = guess_array]_vars

\* C10: after a turn that was not won, if a possible answer has the maximum
\* entropy of the ranking, the suggestion is a possible answer with that
\* entropy; otherwise the suggestion is the first word of the ranking.
C10_TieBreak ==
    TurnCompleted =>
        /\ Len(entropy_list) = Len(lines)
        /\ HasMaxEntropy(entropy_list[1][1])
        /\ IF \E k \in 1..Len(possible_guesses) : HasMaxEntropy(possible_guesses[k])
           THEN /\ InSeq(guess_suggestion, possible_guesses)
                /\ HasMaxEntropy(guess_suggestion)
           ELSE guess_suggestion = entropy_list[1][1]

\* A tie at the top between the first-ranked word, which is no possible
\* answer, and a possible answer, which is suggested.
C10_Witness ==
    /\ TurnCompleted
    /\ ~InSeq(entropy_list[1][1], possible_guesses)
    /\ InSeq(guess_suggestion, possible_guesses)
    /\ Len(possible_guesses) >= 1

\* No possible answer reaches the maximum entropy: the first-ranked word,
\* which cannot be the answer, is suggested.
C10_FirstRankedCase ==
    /\ TurnCompleted
    /\ Len(possible_guesses) >= 2
    /\ ~InSeq(guess_suggestion, possible_guesses)

====
